---------------------------- MODULE Spec2Model ----------------------------
(* A model of duiadns.py, the DUIA dynamic DNS update client:              *)
(*   addrweb, findipv6, findipv4, postupdate, readcache, writecache,        *)
(*   getaddrupdate and updateEngine.                                        *)
(* Python values are modelled as follows.  None is the string "None".       *)
(* A netaddr.IPAddress is a record [ok, raises, version, value]; ok = FALSE  *)
(* stands for the exception the constructor raises, named by raises.  value *)
(* is the triple <<top 16 bits, next 16 bits, low bits>> of the number.     *)
EXTENDS Integers, Sequences, FiniteSets, TLC

None == "None"

(***************************************************************************)
(* Bounds of the model.                                                    *)
(***************************************************************************)
MaxHosts == 2        \* longest hostname list of a configuration
MaxRuns == 2         \* successive invocations of updateEngine
MaxNetChanges == 1   \* changes of the network environment
MaxIfaces == 2       \* interfaces netifaces.interfaces() reports
MaxAddrs == 3        \* IPv6 addresses per interface

\* the sequences over S of length at most n
SeqsUpTo(S, n) == UNION {[1..k -> S] : k \in 0..n}

(***************************************************************************)
(* netaddr.IPAddress on the texts of the model.                            *)
(***************************************************************************)
Invalid ==
    [ok |-> FALSE, raises |-> "AddrFormatError", version |-> 0,
     value |-> <<0, 0, 0>>]

\* the ValueError of IPAddress for a text that contains "/" (netaddr refuses
\* netmasks and prefixes before it tries to parse); ValueError is not an
\* AddrFormatError
Netmask ==
    [ok |-> FALSE, raises |-> "ValueError", version |-> 0,
     value |-> <<0, 0, 0>>]

IP(ver, hi, mid, lo) ==
    [ok |-> TRUE, raises |-> "none", version |-> ver,
     value |-> <<hi, mid, lo>>]

\* IPAddress(text): the parsed address, or Invalid when the constructor raises.
\* Texts differing in case or zero compression parse to the same value; a
\* text with a %zone suffix, an arbitrary string and None do not parse.
IPAddress(text) ==
    CASE text = "1.2.3.4"        -> IP(4, 0, 0, 16909060)
      [] text = "5.6.7.8"        -> IP(4, 0, 0, 84281096)
      [] text = "2001:db8::1"    -> IP(6, 8193, 3512, 1)
      [] text = "2001:DB8:0::1"  -> IP(6, 8193, 3512, 1)
      [] text = "2001:db8::2"    -> IP(6, 8193, 3512, 2)
      [] text = "2001:db8::3"    -> IP(6, 8193, 3512, 3)
      [] text = "fe80::1"        -> IP(6, 65152, 0, 1)
      [] text = "::1"            -> IP(6, 0, 0, 1)
      [] text = "1.2.3.4/24"     -> Netmask
      [] OTHER                   -> Invalid

\* IPAddress(text, version=ver, flags=INET_PTON): raises when the text is not
\* an address of the requested family.
IPAddressVersion(text, ver) ==
    LET a == IPAddress(text)
    IN  IF a.raises = "ValueError" THEN a
        ELSE IF a.ok /\ a.version = ver THEN a ELSE Invalid

\* str(IPAddress): the canonical text of an address value.
str(ip) ==
    CASE ip = IP(4, 0, 0, 16909060) -> "1.2.3.4"
      [] ip = IP(4, 0, 0, 84281096) -> "5.6.7.8"
      [] ip = IP(6, 8193, 3512, 1)  -> "2001:db8::1"
      [] ip = IP(6, 8193, 3512, 2)  -> "2001:db8::2"
      [] ip = IP(6, 8193, 3512, 3)  -> "2001:db8::3"
      [] ip = IP(6, 65152, 0, 1)    -> "fe80::1"
      [] ip = IP(6, 0, 0, 1)        -> "::1"
      [] OTHER                      -> "?"

\* ipaddr in IPNetwork('fe80::/10'): the top ten bits are 1111111010.
InLinkLocal(ip) == ip.ok /\ ip.version = 6 /\ ip.value[1] \div 64 = 1018

\* addr['addr'].split('%')[0]
StripZone(text) ==
    CASE text = "fe80::1%eth0" -> "fe80::1"
      [] text = "fe80::1%eth1" -> "fe80::1"
      [] OTHER                 -> text

(***************************************************************************)
(* The environment: the address service and the local interfaces.          *)
(***************************************************************************)
TransportError == "TransportError"

\* flags of an address dictionary: NoFlags when the key is missing
NoFlags == {"noflags"}
IN6_IFF_TEMPORARY == "temporary"
IN6_IFF_DEPRECATED == "deprecated"

\* addrweb(v4): the body of the service's answer as a canonical address of
\* the requested family, None on a transport error or an unusable body.
addrweb(body, v4) ==
    IF body = TransportError THEN None
    ELSE LET addr == IPAddressVersion(body, IF v4 THEN 4 ELSE 6)
         IN  IF addr.ok THEN str(addr) ELSE None

\* findipv4()
findipv4(body) == addrweb(body, TRUE)

\* validate_ipv6 without the test of line 79
validate_ipv6_NoLinkLocal(addr) ==
    LET ipaddr == IPAddress(StripZone(addr.addr))
    IN  IF addr.flags = NoFlags
        THEN <<ipaddr, TRUE>>
        ELSE <<ipaddr, ~(IN6_IFF_TEMPORARY \in addr.flags)>>

\* validate_ipv6 with line 86 returning True whatever the flags
validate_ipv6_IgnoreFlags(addr) ==
    LET ipaddr == IPAddress(StripZone(addr.addr))
    IN  IF InLinkLocal(ipaddr) \/ ipaddr = IPAddress("::1")
        THEN <<ipaddr, FALSE>>
        ELSE <<ipaddr, TRUE>>

\* validate_ipv6(addr): the pair <<IPAddress, valid>>
validate_ipv6(addr) ==
    LET ipaddr == IPAddress(StripZone(addr.addr))
    IN  IF InLinkLocal(ipaddr) \/ ipaddr = IPAddress("::1")
        THEN <<ipaddr, FALSE>>
        ELSE IF addr.flags = NoFlags
             THEN <<ipaddr, TRUE>>
             ELSE <<ipaddr, ~(IN6_IFF_TEMPORARY \in addr.flags)>>

\* dict(pairs): a Python dictionary as the sequence of its items in insertion
\* order; a repeated key keeps its place and takes the later value.
RECURSIVE DictInsert(_, _)
DictInsert(items, pair) ==
    IF items = <<>> THEN <<pair>>
    ELSE IF Head(items)[1] = pair[1]
         THEN <<pair>> \o Tail(items)
         ELSE <<Head(items)>> \o DictInsert(Tail(items), pair)

RECURSIVE DictOf(_, _)
DictOf(items, addrs) ==
    IF addrs = <<>> THEN items
    ELSE DictOf(DictInsert(items, validate_ipv6(Head(addrs))), Tail(addrs))

\* addrmap = dict(validate_ipv6(addr) for addr in addrs)
AddrMap(addrs) == DictOf(<<>>, addrs)

InMap(addrmap, key) == \E i \in 1..Len(addrmap) : addrmap[i][1] = key

Lookup(addrmap, key) ==
    addrmap[CHOOSE i \in 1..Len(addrmap) : addrmap[i][1] = key][2]

\* lines 105-106 keeping the last valid address instead of the first
RECURSIVE FirstValid_Last(_)
FirstValid_Last(addrmap) ==
    IF addrmap = <<>> THEN None
    ELSE IF FirstValid_Last(Tail(addrmap)) # None
         THEN FirstValid_Last(Tail(addrmap))
         ELSE IF Head(addrmap)[2] THEN str(Head(addrmap)[1]) ELSE None

\* for addr, valid in addrmap.items(): if valid: return str(addr)
RECURSIVE FirstValid(_)
FirstValid(addrmap) ==
    IF addrmap = <<>> THEN None
    ELSE IF Head(addrmap)[2] THEN str(Head(addrmap)[1])
         ELSE FirstValid(Tail(addrmap))

\* the loop body with "continue" in place of the break of line 109
IfaceStep_NoBreak(pubaddr, iface) ==
    IF iface.inet6 = FALSE
    THEN [kind |-> "continue", val |-> None]
    ELSE LET addrmap == AddrMap(iface.addrs)
         IN  IF ~InMap(addrmap, pubaddr)
             THEN [kind |-> "continue", val |-> None]
             ELSE IF Lookup(addrmap, pubaddr)
                  THEN [kind |-> "return", val |-> str(pubaddr)]
                  ELSE IF FirstValid(addrmap) # None
                       THEN [kind |-> "return", val |-> FirstValid(addrmap)]
                       ELSE [kind |-> "continue", val |-> None]

\* One pass of the loop body of findipv6 on interface iface:
\* "continue" to the next interface, "return" of a value, or "break".
IfaceStep(pubaddr, iface) ==
    IF iface.inet6 = FALSE
    THEN [kind |-> "continue", val |-> None]
    ELSE LET addrmap == AddrMap(iface.addrs)
         IN  IF ~InMap(addrmap, pubaddr)
             THEN [kind |-> "continue", val |-> None]
             ELSE IF Lookup(addrmap, pubaddr)
                  THEN [kind |-> "return", val |-> str(pubaddr)]
                  ELSE IF FirstValid(addrmap) # None
                       THEN [kind |-> "return", val |-> FirstValid(addrmap)]
                       ELSE [kind |-> "break", val |-> None]

RECURSIVE IfaceLoop(_, _)
IfaceLoop(pubaddr, ifaces) ==
    IF ifaces = <<>> THEN None
    ELSE LET r == IfaceStep(pubaddr, Head(ifaces))
         IN  IF r.kind = "continue" THEN IfaceLoop(pubaddr, Tail(ifaces))
             ELSE r.val

\* findipv6() as a function of the service's answer and the interfaces
findipv6(body, ifaces) ==
    LET pubaddr == IPAddress(addrweb(body, FALSE))
    IN  IF ~pubaddr.ok THEN None ELSE IfaceLoop(pubaddr, ifaces)


(***************************************************************************)
(* State.                                                                  *)
(***************************************************************************)
VARIABLES
    config,        \* the ConfigParser handed to updateEngine
    cachefile,     \* the cache file on disk
    net,           \* what the address service answers and the interfaces
    netChanges,    \* number of changes of net so far
    pc,            \* position of updateEngine: "exit" or "loop"
    run,           \* number of invocations of updateEngine so far
    result,        \* outcome of the latest invocation
    exc,           \* the exception that ended it, when result = "raised"
    cachemap,      \* the dictionary cachemap of the running invocation
    loaded,        \* cachemap as readcache returned it
    idx,           \* number of hostnames the for loop has finished
    calls,         \* the postupdate calls of this invocation, in order
    out,           \* the lines printed by this invocation
    writes,        \* number of writecache calls of this invocation
    lastResp,      \* the answer of the update service to the latest call
    startChanges,  \* netChanges when this invocation started
    startFile,     \* the cache file as it was when this invocation started
    prev,          \* summary of the invocation before this one
    f6body,        \* findipv6 in isolation: the service's answer
    f6ifaces,      \*   the interfaces of the machine
    f6pc,          \*   position: "start", "loop" or "done"
    f6pubaddr,     \*   pubaddr
    f6i,           \*   index of the next interface of the for loop
    f6ret,         \*   the value returned
    f6examined,    \*   indices of the interfaces whose addresses were read
    f6enumerated,  \*   whether netifaces.interfaces() was called
    gaNewaddr,     \* getaddrupdate in isolation: the argument newaddr
    gaCache,       \*   the argument cache
    gaPc,          \*   position: "call", "returned" or "raised"
    gaRet          \*   the value returned, or the exception raised

engineVars == <<config, cachefile, net, netChanges, pc, run, result, exc,
                cachemap, loaded, idx, calls, out, writes, lastResp,
                startChanges, startFile, prev>>

f6Vars == <<f6body, f6ifaces, f6pc, f6pubaddr, f6i, f6ret, f6examined,
            f6enumerated>>

gaVars == <<gaNewaddr, gaCache, gaPc, gaRet>>

vars == <<config, cachefile, net, netChanges, pc, run, result, exc,
          cachemap, loaded, idx, calls, out, writes, lastResp,
          startChanges, startFile, prev,
          f6body, f6ifaces, f6pc, f6pubaddr, f6i, f6ret, f6examined,
          f6enumerated,
          gaNewaddr, gaCache, gaPc, gaRet>>

(***************************************************************************)
(* The configuration, the cache file and the network of updateEngine.       *)
(***************************************************************************)
HostNames == {"h1", "h2"}

\* keys a cache file can hold: the hostnames and one no longer configured
Keys == HostNames \cup {"old"}

\* A configuration: hostnames is the split value of option hostname, or
\* <<>> with hashost = FALSE when the option is missing; password and cache
\* are "set" or "missing"; ipv4 and ipv6 are "true", "false", "missing" or
\* "bad" (a value getboolean rejects).
Config(hs, pw, ca, b4, b6) ==
    [hashost |-> hs # <<"?">>, hostnames |-> IF hs = <<"?">> THEN <<>> ELSE hs,
     password |-> pw, cache |-> ca, ipv4 |-> b4, ipv6 |-> b6]

HostLists == SeqsUpTo(HostNames, MaxHosts)

Configs ==
    {Config(hs, "set", "set", b[1], b[2]) :
        hs \in HostLists,
        b \in {<<"true", "true">>, <<"true", "missing">>, <<"false", "true">>}}
    \cup {Config(<<"?">>, "set", "set", "true", "true"),
          Config(<<"h1">>, "missing", "set", "true", "true"),
          Config(<<"h1">>, "set", "missing", "true", "true"),
          Config(<<"h1">>, "set", "set", "bad", "true"),
          Config(<<"h1">>, "set", "set", "true", "bad"),
          Config(<<"h1">>, "set", "set", "false", "missing")}

\* A JSON value of the cache: an object ("object") whose map gives every key
\* its entry, or anything else ("other").  An entry is missing ("absent"),
\* an object with fields ipv4 and ipv6 (None for a missing field), or any
\* other JSON value ("other").
Entry(k, a4, a6) == [kind |-> k, ipv4 |-> a4, ipv6 |-> a6]
AbsentEntry == Entry("absent", None, None)
OtherEntry == Entry("other", None, None)
Object(a4, a6) == Entry("object", a4, a6)

Dict(e1, e2, eold) ==
    [kind |-> "object",
     map |-> [k \in Keys |-> CASE k = "h1" -> e1 [] k = "h2" -> e2
                               [] OTHER -> eold]]
EmptyDict == Dict(AbsentEntry, AbsentEntry, AbsentEntry)
OtherJson == [kind |-> "other", map |-> EmptyDict.map]

MissingFile == [state |-> "missing", json |-> EmptyDict]
UnparsableFile == [state |-> "unparsable", json |-> EmptyDict]
JsonFile(j) == [state |-> "json", json |-> j]

CacheFiles ==
    {MissingFile, UnparsableFile, JsonFile(OtherJson),
     JsonFile(Dict(Object("1.2.3.4", None), AbsentEntry,
                   Object("5.6.7.8", None))),
     JsonFile(Dict(Object("garbage", "2001:DB8:0::1"), AbsentEntry,
                   AbsentEntry)),
     JsonFile(Dict(Object("1.2.3.4", "2001:db8::2"), OtherEntry,
                   AbsentEntry)),
     JsonFile(Dict(OtherEntry, AbsentEntry, Object("5.6.7.8", None))),
     JsonFile(Dict(AbsentEntry, AbsentEntry, OtherEntry))}

\* the network: what the two address services answer and the interfaces
Net(b4, b6, ifs) == [body4 |-> b4, body6 |-> b6, ifaces |-> ifs]

Iface(addrs) == [inet6 |-> TRUE, addrs |-> addrs]
AddrDict(a, f) == [addr |-> a, flags |-> f]

Nets ==
    {Net("1.2.3.4", "2001:DB8:0::1",
         <<Iface(<<AddrDict("2001:db8::1", {IN6_IFF_TEMPORARY}),
                   AddrDict("2001:db8::2", NoFlags)>>)>>),
     Net("5.6.7.8", TransportError, <<>>),
     Net(TransportError, "2001:DB8:0::1",
         <<Iface(<<AddrDict("2001:db8::1", NoFlags)>>)>>)}

\* answers of the update service: a status code or a transport error
Responses == {"200", "500", TransportError}

NoPrev == [result |-> "none", calls |-> <<>>, startChanges |-> 0]

(***************************************************************************)
(* The functions of duiadns.py used by updateEngine.                       *)
(***************************************************************************)
\* Python truth value of None or a string
Falsy(x) == x = None \/ x = ""

\* postupdate with line 146 returning True for every answered request
postupdate_AnyStatus(ipv4, ipv6, resp) ==
    IF Falsy(ipv4) /\ Falsy(ipv6) THEN "ValueError"
    ELSE IF resp = TransportError THEN "False" ELSE "True"

\* postupdate(host, md5pass, ipv4, ipv6) when the service answers resp:
\* "ValueError", or the returned boolean as "True" / "False"
postupdate(ipv4, ipv6, resp) ==
    IF Falsy(ipv4) /\ Falsy(ipv6) THEN "ValueError"
    ELSE IF resp = TransportError THEN "False"
         ELSE IF resp = "200" THEN "True" ELSE "False"

\* the query of the update URL: ipstr and the ip4= and ip6= parameters
UpdateQuery(ipv4, ipv6) ==
    [ipstr |-> IF Falsy(ipv4) THEN "ipv6"
               ELSE IF Falsy(ipv6) THEN "ipv4" ELSE "ip",
     ip4 |-> IF Falsy(ipv4) THEN None ELSE ipv4,
     ip6 |-> IF Falsy(ipv6) THEN None ELSE ipv6]

\* readcache(cache): "ValueError" stands for the exception of json.load
readcache(file) ==
    IF file.state = "missing" THEN [raised |-> FALSE, cmap |-> EmptyDict]
    ELSE IF file.state = "unparsable"
         THEN [raised |-> TRUE, cmap |-> EmptyDict]
         ELSE [raised |-> FALSE, cmap |-> file.json]

\* writecache(cmap, cache) when no IOError occurs
writecache(cmap) == JsonFile(cmap)

\* the result of a call that ends in an uncaught ValueError
RaisesValueError == "raise ValueError"

\* getaddrupdate without the comparison of line 193
getaddrupdate_NoCompare(newaddr, cache) ==
    LET n == IPAddress(newaddr)
    IN  IF n.raises = "ValueError" \/ IPAddress(cache).raises = "ValueError"
        THEN RaisesValueError
        ELSE IF ~n.ok THEN None ELSE str(n)

\* getaddrupdate(newaddr, cache): lines 187-188 and 190-191 catch
\* AddrFormatError only, so the ValueError of IPAddress leaves the function
getaddrupdate(newaddr, cache) ==
    LET n == IPAddress(newaddr)
        c == IPAddress(cache)
    IN  IF n.raises = "ValueError" THEN RaisesValueError
        ELSE IF ~n.ok THEN None
        ELSE IF c.raises = "ValueError" THEN RaisesValueError
        ELSE IF ~c.ok THEN str(n)
        ELSE IF n = c THEN None ELSE str(n)

\* config.getboolean(dsec, opt) with NoOptionError read as False
getboolean(opt) == opt = "true"

\* The first check of lines 203-239 that fails, or "ok"
ConfigError(cfg) ==
    IF ~cfg.hashost THEN "hostname"
    ELSE IF cfg.password = "missing" THEN "password"
    ELSE IF cfg.cache = "missing" THEN "cache"
    ELSE IF cfg.ipv4 = "bad" THEN "ipv4"
    ELSE IF cfg.ipv6 = "bad" THEN "ipv6"
    ELSE IF ~(getboolean(cfg.ipv4) \/ getboolean(cfg.ipv6)) THEN "neither"
    ELSE "ok"

\* line 249: crec = cachemap.get(hostname, {})
GetRec(cmap, hostname) ==
    IF cmap.map[hostname].kind = "absent" THEN Object(None, None)
    ELSE cmap.map[hostname]

\* lines 249-257: raises is TRUE when cachemap.get or crec.get raises
\* AttributeError because the value is not a dictionary, or getaddrupdate
\* lets the ValueError of IPAddress through
Decide(cfg, cmap, nt, hostname) ==
    IF cmap.kind # "object" \/ GetRec(cmap, hostname).kind # "object"
    THEN [raises |-> TRUE, exc |-> "AttributeError",
          addr4 |-> None, addr6 |-> None]
    ELSE LET crec == GetRec(cmap, hostname)
             a4 == IF getboolean(cfg.ipv4)
                   THEN getaddrupdate(findipv4(nt.body4), crec.ipv4)
                   ELSE None
             a6 == IF getboolean(cfg.ipv6)
                   THEN getaddrupdate(findipv6(nt.body6, nt.ifaces),
                                      crec.ipv6)
                   ELSE None
         IN  IF a4 = RaisesValueError \/ a6 = RaisesValueError
             THEN [raises |-> TRUE, exc |-> "ValueError IPAddress",
                   addr4 |-> None, addr6 |-> None]
             ELSE [raises |-> FALSE, exc |-> "none",
                   addr4 |-> a4, addr6 |-> a6]

\* line 259 with a condition that never holds
Unnecessary_Never(addr4, addr6) == FALSE

\* line 259: if not addr4 and not addr6
Unnecessary(addr4, addr6) == Falsy(addr4) /\ Falsy(addr6)

\* lines 267-269 with the IPv6 address never stored
Updated_NoIpv6(crec, addr4, addr6) ==
    Object(IF Falsy(addr4) THEN crec.ipv4 ELSE addr4, crec.ipv6)

\* lines 267-269 without the tests "if addr4" and "if addr6"
Updated_Unguarded(crec, addr4, addr6) == Object(addr4, addr6)

\* lines 267-269: the record stored after a successful update
Updated(crec, addr4, addr6) ==
    Object(IF Falsy(addr4) THEN crec.ipv4 ELSE addr4,
           IF Falsy(addr6) THEN crec.ipv6 ELSE addr6)

(***************************************************************************)
(* Inputs of findipv6.                                                     *)
(***************************************************************************)
\* the address dictionaries netifaces can report for one interface
AddrDicts ==
    {[addr |-> "2001:db8::1", flags |-> f] :
        f \in {NoFlags, {IN6_IFF_TEMPORARY}, {IN6_IFF_DEPRECATED}}}
    \cup {[addr |-> "2001:db8::2", flags |-> f] :
        f \in {NoFlags, {IN6_IFF_TEMPORARY}}}
    \cup {[addr |-> "fe80::1%eth0", flags |-> NoFlags]}

\* an interface holds an address once
Distinct(addrs) ==
    \A i, j \in 1..Len(addrs) :
        i # j => IPAddress(StripZone(addrs[i].addr))
                   # IPAddress(StripZone(addrs[j].addr))

\* interfaces: without the AF_INET6 key, or with a list of addresses
Interfaces ==
    {[inet6 |-> FALSE, addrs |-> <<>>]}
    \cup {[inet6 |-> TRUE, addrs |-> a] :
            a \in {s \in SeqsUpTo(AddrDicts, MaxAddrs) : s # <<>> /\ Distinct(s)}}

\* answers of http://ipv6.duiadns.net
Bodies6 == {TransportError, "2001:DB8:0::1", "fe80::1"}

(***************************************************************************)
(* findipv6 step by step.                                                  *)
(***************************************************************************)
GaIdle ==
    /\ gaNewaddr = None
    /\ gaCache = None
    /\ gaPc = "returned"
    /\ gaRet = None

EngineIdle ==
    /\ config = Config(<<>>, "missing", "missing", "missing", "missing")
    /\ cachefile = MissingFile
    /\ net = [body4 |-> TransportError, body6 |-> TransportError,
              ifaces |-> <<>>]
    /\ netChanges = 0
    /\ pc = "exit"
    /\ run = 0
    /\ result = "none"
    /\ exc = "none"
    /\ cachemap = EmptyDict
    /\ loaded = EmptyDict
    /\ idx = 0
    /\ calls = <<>>
    /\ out = <<>>
    /\ writes = 0
    /\ lastResp = "none"
    /\ startChanges = 0
    /\ startFile = MissingFile
    /\ prev = NoPrev

Init6 ==
    /\ EngineIdle
    /\ GaIdle
    /\ f6body \in Bodies6
    /\ f6ifaces \in SeqsUpTo(Interfaces, MaxIfaces)
    /\ f6pc = "start"
    /\ f6pubaddr = Invalid
    /\ f6i = 1
    /\ f6ret = None
    /\ f6examined = <<>>
    /\ f6enumerated = FALSE

\* lines 64-66 placed after line 90: the interfaces are listed first
F6NoPublic_ListsFirst ==
    /\ f6pc = "start"
    /\ ~IPAddress(addrweb(f6body, FALSE)).ok
    /\ f6enumerated' = TRUE
    /\ f6pc' = "done"
    /\ f6ret' = None
    /\ UNCHANGED <<f6body, f6ifaces, f6pubaddr, f6i, f6examined>>
    /\ UNCHANGED engineVars
    /\ UNCHANGED gaVars

\* lines 64-66: the service gave no address; return None
F6NoPublic ==
    /\ f6pc = "start"
    /\ ~IPAddress(addrweb(f6body, FALSE)).ok
    /\ f6pc' = "done"
    /\ f6ret' = None
    /\ UNCHANGED <<f6body, f6ifaces, f6pubaddr, f6i, f6examined, f6enumerated>>
    /\ UNCHANGED engineVars
    /\ UNCHANGED gaVars

\* lines 64-90: pubaddr is set and netifaces.interfaces() is called
F6Enumerate ==
    /\ f6pc = "start"
    /\ IPAddress(addrweb(f6body, FALSE)).ok
    /\ f6pubaddr' = IPAddress(addrweb(f6body, FALSE))
    /\ f6enumerated' = TRUE
    /\ f6pc' = "loop"
    /\ UNCHANGED <<f6body, f6ifaces, f6i, f6ret, f6examined>>
    /\ UNCHANGED engineVars
    /\ UNCHANGED gaVars

\* lines 90-109: one pass of the loop over the interfaces
F6Iface ==
    /\ f6pc = "loop"
    /\ f6i <= Len(f6ifaces)
    /\ LET r == IfaceStep(f6pubaddr, f6ifaces[f6i])
       IN  /\ f6examined' = Append(f6examined, f6i)
           /\ IF r.kind = "continue"
              THEN /\ f6i' = f6i + 1
                   /\ UNCHANGED <<f6pc, f6ret>>
              ELSE /\ f6pc' = "done"
                   /\ f6ret' = r.val
                   /\ UNCHANGED f6i
    /\ UNCHANGED <<f6body, f6ifaces, f6pubaddr, f6enumerated>>
    /\ UNCHANGED engineVars
    /\ UNCHANGED gaVars

\* line 111: the loop ran out of interfaces
F6Exhausted ==
    /\ f6pc = "loop"
    /\ f6i > Len(f6ifaces)
    /\ f6pc' = "done"
    /\ f6ret' = None
    /\ UNCHANGED <<f6body, f6ifaces, f6pubaddr, f6i, f6examined, f6enumerated>>
    /\ UNCHANGED engineVars
    /\ UNCHANGED gaVars

Next6 == F6NoPublic \/ F6Enumerate \/ F6Iface \/ F6Exhausted

Spec6 == Init6 /\ [][Next6]_vars

\* the step-by-step run and the function findipv6 agree
F6Agrees == f6pc = "done" => f6ret = findipv6(f6body, f6ifaces)

F6Idle ==
    /\ f6body = TransportError
    /\ f6ifaces = <<>>
    /\ f6pc = "done"
    /\ f6pubaddr = Invalid
    /\ f6i = 1
    /\ f6ret = None
    /\ f6examined = <<>>
    /\ f6enumerated = FALSE

(***************************************************************************)
(* getaddrupdate as a function of its two arguments.                       *)
(***************************************************************************)
\* what findipv4 and findipv6 can hand over, and texts that are no address
NewAddrs ==
    {None, "garbage", "1.2.3.4", "5.6.7.8", "2001:db8::1", "2001:DB8:0::1",
     "2001:db8::2", "2001:db8::3"}

\* what a cache file can hold for crec.get('ipv4') and crec.get('ipv6')
CachedAddrs ==
    {None, "garbage", "1.2.3.4", "5.6.7.8", "2001:db8::1", "2001:DB8:0::1",
     "2001:db8::2", "1.2.3.4/24"}

InitGa ==
    /\ EngineIdle
    /\ F6Idle
    /\ gaNewaddr \in NewAddrs
    /\ gaCache \in CachedAddrs
    /\ gaPc = "call"
    /\ gaRet = None

\* lines 186-194: the call returns None or the text of newaddr
GaReturn ==
    /\ gaPc = "call"
    /\ getaddrupdate(gaNewaddr, gaCache) # RaisesValueError
    /\ gaRet' = getaddrupdate(gaNewaddr, gaCache)
    /\ gaPc' = "returned"
    /\ UNCHANGED <<gaNewaddr, gaCache>>
    /\ UNCHANGED engineVars
    /\ UNCHANGED f6Vars

\* lines 187 and 190: IPAddress raises an exception that is not caught
GaRaise ==
    /\ gaPc = "call"
    /\ getaddrupdate(gaNewaddr, gaCache) = RaisesValueError
    /\ gaRet' = "ValueError"
    /\ gaPc' = "raised"
    /\ UNCHANGED <<gaNewaddr, gaCache>>
    /\ UNCHANGED engineVars
    /\ UNCHANGED f6Vars

NextGa == GaReturn \/ GaRaise

SpecGa == InitGa /\ [][NextGa]_vars

(***************************************************************************)
(* updateEngine, one action per outcome of each stage.                     *)
(***************************************************************************)

Init ==
    /\ GaIdle
    /\ config \in Configs
    /\ cachefile \in CacheFiles
    /\ net \in Nets
    /\ netChanges = 0
    /\ pc = "exit"
    /\ run = 0
    /\ result = "none"
    /\ exc = "none"
    /\ cachemap = EmptyDict
    /\ loaded = EmptyDict
    /\ idx = 0
    /\ calls = <<>>
    /\ out = <<>>
    /\ writes = 0
    /\ lastResp = "none"
    /\ startChanges = 0
    /\ startFile = MissingFile
    /\ prev = NoPrev
    /\ F6Idle

Line(kind, host) == [kind |-> kind, host |-> host]

\* what every invocation of updateEngine does on entry
Enter ==
    /\ pc = "exit"
    /\ run < MaxRuns
    /\ run' = run + 1
    /\ prev' = [result |-> result, calls |-> calls,
                startChanges |-> startChanges]
    /\ startChanges' = netChanges
    /\ startFile' = cachefile
    /\ calls' = <<>>
    /\ writes' = 0
    /\ lastResp' = "none"
    /\ idx' = 0
    /\ exc' = "none"
    /\ UNCHANGED <<config, cachefile, net, netChanges>>
    /\ UNCHANGED f6Vars
    /\ UNCHANGED gaVars

\* lines 203-239: a required option is missing or a boolean is malformed
RunConfigInvalid ==
    /\ Enter
    /\ ConfigError(config) # "ok"
    /\ out' = <<Line("ERROR config", ConfigError(config))>>
    /\ result' = "False"
    /\ pc' = "exit"
    /\ cachemap' = EmptyDict
    /\ loaded' = EmptyDict

\* lines 241-244: the cache file exists but json.load raises ValueError
RunCacheCorrupt ==
    /\ Enter
    /\ ConfigError(config) = "ok"
    /\ readcache(cachefile).raised
    /\ out' = <<Line("ERROR cache parse", "")>>
    /\ result' = "False"
    /\ pc' = "exit"
    /\ cachemap' = EmptyDict
    /\ loaded' = EmptyDict

\* lines 241-248: the cache is read and the loop over the hostnames begins
RunLoad ==
    /\ Enter
    /\ ConfigError(config) = "ok"
    /\ ~readcache(cachefile).raised
    /\ cachemap' = readcache(cachefile).cmap
    /\ loaded' = readcache(cachefile).cmap
    /\ out' = <<>>
    /\ result' = "none"
    /\ pc' = "loop"

InLoop == pc = "loop" /\ idx < Len(config.hostnames)

hostname == config.hostnames[idx + 1]

decision == Decide(config, cachemap, net, hostname)

\* an uncaught exception ends the invocation: AttributeError of lines 249-256
\* on a cache value that is not a dictionary, ValueError of IPAddress in
\* getaddrupdate, ValueError of line 130
HostRaises ==
    /\ InLoop
    /\ \/ decision.raises
       \/ /\ ~Unnecessary(decision.addr4, decision.addr6)
          /\ \E resp \in Responses :
                postupdate(decision.addr4, decision.addr6, resp) = "ValueError"
    /\ exc' = IF decision.raises THEN decision.exc ELSE "ValueError"
    /\ result' = "raised"
    /\ pc' = "exit"
    /\ UNCHANGED <<config, cachefile, net, netChanges, run, cachemap, loaded,
                   idx, calls, out, writes, lastResp, startChanges,
                   startFile, prev>>
    /\ UNCHANGED f6Vars
    /\ UNCHANGED gaVars

\* lines 259-261: neither family needs an update
HostUnnecessary ==
    /\ InLoop
    /\ ~decision.raises
    /\ Unnecessary(decision.addr4, decision.addr6)
    /\ out' = Append(out, Line("unnecessary", hostname))
    /\ idx' = idx + 1
    /\ UNCHANGED <<config, cachefile, net, netChanges, pc, run, result, exc,
                   cachemap, loaded, calls, writes, lastResp, startChanges,
                   startFile, prev>>
    /\ UNCHANGED f6Vars
    /\ UNCHANGED gaVars

Call(postresult) ==
    [host |-> hostname, ipv4 |-> decision.addr4, ipv6 |-> decision.addr6,
     query |-> UpdateQuery(decision.addr4, decision.addr6),
     ok |-> postresult = "True", pos |-> idx + 1]

\* line 269 as "cachemap = {hostname: crec}": the other entries are dropped
HostUpdated_FreshMap ==
    /\ InLoop
    /\ ~decision.raises
    /\ ~Unnecessary(decision.addr4, decision.addr6)
    /\ \E resp \in Responses :
        /\ postupdate(decision.addr4, decision.addr6, resp) = "True"
        /\ calls' = Append(calls, Call("True"))
        /\ lastResp' = resp
    /\ cachemap' = [EmptyDict EXCEPT !.map[hostname] =
                      Updated(GetRec(cachemap, hostname),
                              decision.addr4, decision.addr6)]
    /\ out' = Append(out, Line("success", hostname))
    /\ idx' = idx + 1
    /\ UNCHANGED <<config, cachefile, net, netChanges, pc, run, result, exc,
                   loaded, writes, startChanges, startFile, prev>>
    /\ UNCHANGED f6Vars
    /\ UNCHANGED gaVars

\* lines 264-269: the update is posted and the service reports success
HostUpdated ==
    /\ InLoop
    /\ ~decision.raises
    /\ ~Unnecessary(decision.addr4, decision.addr6)
    /\ \E resp \in Responses :
        /\ postupdate(decision.addr4, decision.addr6, resp) = "True"
        /\ calls' = Append(calls, Call("True"))
        /\ lastResp' = resp
    /\ cachemap' = [cachemap EXCEPT !.map[hostname] =
                      Updated(GetRec(cachemap, hostname),
                              decision.addr4, decision.addr6)]
    /\ out' = Append(out, Line("success", hostname))
    /\ idx' = idx + 1
    /\ UNCHANGED <<config, cachefile, net, netChanges, pc, run, result, exc,
                   loaded, writes, startChanges, startFile, prev>>
    /\ UNCHANGED f6Vars
    /\ UNCHANGED gaVars

\* lines 267-269 executed in the else branch of line 270 as well
HostFailed_Recorded ==
    /\ InLoop
    /\ ~decision.raises
    /\ ~Unnecessary(decision.addr4, decision.addr6)
    /\ \E resp \in Responses :
        /\ postupdate(decision.addr4, decision.addr6, resp) = "False"
        /\ calls' = Append(calls, Call("False"))
        /\ lastResp' = resp
    /\ cachemap' = [cachemap EXCEPT !.map[hostname] =
                      Updated(GetRec(cachemap, hostname),
                              decision.addr4, decision.addr6)]
    /\ out' = Append(out, Line("failed", hostname))
    /\ idx' = idx + 1
    /\ UNCHANGED <<config, cachefile, net, netChanges, pc, run, result, exc,
                   loaded, writes, startChanges, startFile, prev>>
    /\ UNCHANGED f6Vars
    /\ UNCHANGED gaVars

\* lines 264, 270-271: the update is posted and does not succeed
HostFailed ==
    /\ InLoop
    /\ ~decision.raises
    /\ ~Unnecessary(decision.addr4, decision.addr6)
    /\ \E resp \in Responses :
        /\ postupdate(decision.addr4, decision.addr6, resp) = "False"
        /\ calls' = Append(calls, Call("False"))
        /\ lastResp' = resp
    /\ out' = Append(out, Line("failed", hostname))
    /\ idx' = idx + 1
    /\ UNCHANGED <<config, cachefile, net, netChanges, pc, run, result, exc,
                   cachemap, loaded, writes, startChanges, startFile, prev>>
    /\ UNCHANGED f6Vars
    /\ UNCHANGED gaVars

AfterLoop == pc = "loop" /\ idx = Len(config.hostnames)

\* lines 273, 278: the cache is stored and updateEngine returns True
WriteCacheOk ==
    /\ AfterLoop
    /\ cachefile' = writecache(cachemap)
    /\ writes' = writes + 1
    /\ result' = "True"
    /\ pc' = "exit"
    /\ UNCHANGED <<config, net, netChanges, run, exc, cachemap, loaded, idx,
                   calls, out, lastResp, startChanges,
                   startFile, prev>>
    /\ UNCHANGED f6Vars
    /\ UNCHANGED gaVars

\* lines 273-276: writecache raises IOError, in open (the file is as it
\* was) or later (the file was truncated by open and is incomplete)
WriteCacheFails ==
    /\ AfterLoop
    /\ \E opened \in BOOLEAN :
        cachefile' = IF opened THEN UnparsableFile ELSE cachefile
    /\ writes' = writes + 1
    /\ out' = Append(out, Line("ERROR cache store", ""))
    /\ result' = "False"
    /\ pc' = "exit"
    /\ UNCHANGED <<config, net, netChanges, run, exc, cachemap, loaded, idx,
                   calls, lastResp, startChanges,
                   startFile, prev>>
    /\ UNCHANGED f6Vars
    /\ UNCHANGED gaVars

\* the environment: the addresses of the machine change
NetChange ==
    /\ netChanges < MaxNetChanges
    /\ run < MaxRuns \/ pc = "loop"
    /\ \E n \in Nets \ {net} : net' = n
    /\ netChanges' = netChanges + 1
    /\ UNCHANGED <<config, cachefile, pc, run, result, exc, cachemap, loaded,
                   idx, calls, out, writes, lastResp, startChanges,
                   startFile, prev>>
    /\ UNCHANGED f6Vars
    /\ UNCHANGED gaVars

Next ==
    \/ RunConfigInvalid
    \/ RunCacheCorrupt
    \/ RunLoad
    \/ HostRaises
    \/ HostUnnecessary
    \/ HostUpdated
    \/ HostFailed
    \/ WriteCacheOk
    \/ WriteCacheFails
    \/ NetChange

Spec == Init /\ [][Next]_vars

(***************************************************************************)
(* Properties of updateEngine.                                             *)
(***************************************************************************)
\* The addresses the resolvers report now
Resolved4 == findipv4(net.body4)
Resolved6 == findipv6(net.body6, net.ifaces)

\* The cached value of a family for a hostname; None when there is none
Cached4(h) == cachemap.map[h].ipv4
Cached6(h) == cachemap.map[h].ipv6

\* A family needs an update: it is enabled, an address was resolved, and the
\* cached value is missing, unreadable or another address
NeedsUpdate(enabled, resolved, cached) ==
    /\ getboolean(enabled)
    /\ IPAddress(resolved).ok
    /\ ~IPAddress(cached).ok \/ IPAddress(cached) # IPAddress(resolved)

Needs4(h) == NeedsUpdate(config.ipv4, Resolved4, Cached4(h))
Needs6(h) == NeedsUpdate(config.ipv6, Resolved6, Cached6(h))

\* the cache value of the hostname is a dictionary, or there is none
Readable(h) == cachemap.kind = "object" /\ cachemap.map[h].kind # "other"

AllOk(cs) == \A i \in 1..Len(cs) : cs[i].ok

\* no change of the network since the invocation before this one began
SameAddresses == netChanges = prev.startChanges

\* C1 as stated: a second invocation on the same configuration and cache
\* file, with the resolvers reporting the same addresses, makes no provider
\* call.
C1_SecondRunNoCalls ==
    (run >= 2 /\ SameAddresses) => calls = <<>>

\* C1 as amended: when the first invocation returned True and every provider
\* call it made succeeded, a second invocation with the same addresses makes
\* no provider call.
C1_SecondRunNoCallsAfterSuccess ==
    (run >= 2 /\ SameAddresses /\ prev.result = "True" /\ AllOk(prev.calls))
        => calls = <<>>

C1_Witness ==
    /\ run = 2 /\ SameAddresses
    /\ prev.result = "True" /\ prev.calls # <<>> /\ AllOk(prev.calls)
    /\ pc = "exit" /\ result = "True"
    /\ idx = Len(config.hostnames) /\ idx > 0
    /\ calls = <<>>

\* C2: a host whose two families need no update gets no provider call, and
\* postupdate is never entered with neither address, so that its ValueError
\* is never raised.
C2_NoCallWithoutChange ==
    /\ [](/\ exc # "ValueError"
          /\ \A i \in 1..Len(calls) :
                ~(Falsy(calls[i].ipv4) /\ Falsy(calls[i].ipv6)))
    /\ [][(InLoop /\ ~Needs4(hostname) /\ ~Needs6(hostname))
            => (calls' = calls /\ exc' # "ValueError")]_vars

C2_Witness ==
    /\ pc = "loop" /\ idx = 2
    /\ out[1].kind = "success"
    /\ out[2].kind = "unnecessary"
    /\ Len(calls) = 1

\* C3: a provider call that does not succeed (a status other than 200 or a
\* transport error) leaves the cache entry of its hostname as it was, present
\* or not, and the host is reported as failed.
C3_FailureKeepsEntry ==
    [][(Len(calls') = Len(calls) + 1 /\ lastResp' # "200")
        => /\ cachemap'.map[hostname] = cachemap.map[hostname]
           /\ out' = Append(out, Line("failed", hostname))]_vars

C3_Witness ==
    /\ calls # <<>>
    /\ lastResp = TransportError
    /\ out[Len(out)] = Line("failed", calls[Len(calls)].host)
    /\ cachemap.map[calls[Len(calls)].host].kind = "absent"
    /\ cachemap = loaded

\* The cache file does not hold the expected structure
Malformed(file) ==
    \/ file.state = "unparsable"
    \/ /\ file.state = "json"
       /\ \/ file.json.kind # "object"
          \/ \E k \in Keys : file.json.map[k].kind = "other"

\* C4: an invocation that finds a malformed cache file ends with the cache
\* error, makes no provider call and leaves the file as it was.
C4_MalformedCacheAborts ==
    (run >= 1 /\ ConfigError(config) = "ok" /\ Malformed(startFile))
        => /\ pc = "exit"
           /\ result = "False"
           /\ out = <<Line("ERROR cache parse", "")>>
           /\ calls = <<>>
           /\ writes = 0
           /\ cachefile = startFile

\* a successful call of this invocation for hostname h
SuccessFor(h, i) == i \in 1..Len(calls) /\ calls[i].host = h /\ calls[i].ok

\* C5: a cache entry differs from the loaded one only after a successful
\* provider call for its hostname, and a field that differs holds an address
\* such a call carried.
C5_ChangeOnlyAfterSuccess ==
    \A h \in Keys :
        /\ cachemap.map[h] # loaded.map[h]
            => \E i \in 1..Len(calls) : SuccessFor(h, i)
        /\ cachemap.map[h].ipv4 # loaded.map[h].ipv4
            => \E i \in 1..Len(calls) :
                  /\ SuccessFor(h, i)
                  /\ calls[i].query.ip4 # None
                  /\ calls[i].query.ip4 = cachemap.map[h].ipv4
        /\ cachemap.map[h].ipv6 # loaded.map[h].ipv6
            => \E i \in 1..Len(calls) :
                  /\ SuccessFor(h, i)
                  /\ calls[i].query.ip6 # None
                  /\ calls[i].query.ip6 = cachemap.map[h].ipv6

C5_Witness ==
    /\ pc = "loop" /\ idx = 2
    /\ out[1].kind = "failed" /\ out[2].kind = "success"
    /\ out[1].host # out[2].host
    /\ loaded.map[out[2].host].kind = "absent"
    /\ cachemap.map[out[2].host].kind = "object"
    /\ cachemap.map[out[1].host] = loaded.map[out[1].host]

\* C6: a host that needs an update gets exactly one provider call, which
\* carries the resolved address of exactly the families that need it; a host
\* that needs none gets no call; no position of the list gets two calls.
C6_OneCallWithChangedFamilies ==
    /\ [](\A i, j \in 1..Len(calls) : i < j => calls[i].pos < calls[j].pos)
    /\ [][/\ (InLoop /\ Readable(hostname) /\ idx' = idx + 1)
              => IF Needs4(hostname) \/ Needs6(hostname)
                 THEN /\ Len(calls') = Len(calls) + 1
                      /\ SubSeq(calls', 1, Len(calls)) = calls
                      /\ calls'[Len(calls')].host = hostname
                      /\ calls'[Len(calls')].pos = idx + 1
                      /\ calls'[Len(calls')].query.ip4 =
                            (IF Needs4(hostname) THEN Resolved4 ELSE None)
                      /\ calls'[Len(calls')].query.ip6 =
                            (IF Needs6(hostname) THEN Resolved6 ELSE None)
                 ELSE calls' = calls
          /\ (idx' = idx /\ run' = run) => calls' = calls]_vars

C6_Witness ==
    /\ getboolean(config.ipv4) /\ getboolean(config.ipv6)
    /\ Len(calls) = 2
    /\ calls[1].query.ipstr = "ipv6" /\ calls[1].query.ip4 = None
    /\ calls[2].query.ipstr = "ip"
    /\ calls[2].query.ip4 = Resolved4 /\ calls[2].query.ip6 = Resolved6

(***************************************************************************)
(* Properties of findipv6.                                                 *)
(***************************************************************************)
\* the address the web service identified (Invalid when there is none)
PublicAddr == IPAddressVersion(f6body, 6)

\* the address of an address dictionary
AddrOf(d) == IPAddress(StripZone(d.addr))

\* interface number k holds address ip
Holds(k, ip) ==
    /\ f6ifaces[k].inet6
    /\ \E i \in 1..Len(f6ifaces[k].addrs) : AddrOf(f6ifaces[k].addrs[i]) = ip

HeldSomewhere(ip) == \E k \in 1..Len(f6ifaces) : Holds(k, ip)

\* the first interface, in enumeration order, that holds ip
FirstHolding(ip) ==
    CHOOSE k \in 1..Len(f6ifaces) :
        Holds(k, ip) /\ \A j \in 1..(k - 1) : ~Holds(j, ip)

\* an address dictionary is valid: not link-local, not loopback, not temporary
Valid(d) ==
    /\ ~InLinkLocal(AddrOf(d))
    /\ AddrOf(d) # IPAddress("::1")
    /\ IN6_IFF_TEMPORARY \notin d.flags

\* valid and not deprecated either
Stable(d) == Valid(d) /\ IN6_IFF_DEPRECATED \notin d.flags

\* the first valid address of interface k in enumeration order, or None
FirstValidOn(k) ==
    LET addrs == f6ifaces[k].addrs
        ok == {i \in 1..Len(addrs) : Valid(addrs[i])}
    IN  IF ok = {} THEN None
        ELSE str(AddrOf(addrs[CHOOSE i \in ok : \A j \in ok : i <= j]))

\* the dictionary of address ip on interface k
DictOn(k, ip) ==
    LET addrs == f6ifaces[k].addrs
    IN  addrs[CHOOSE i \in 1..Len(addrs) : AddrOf(addrs[i]) = ip]

\* C7 as stated: a link-local public address makes findipv6 return None.
C7_LinkLocalGivesNone ==
    (f6pc = "done" /\ InLinkLocal(PublicAddr)) => f6ret = None

\* C7 as amended: a link-local public address is never returned itself;
\* findipv6 returns None when no interface holds it or the first interface
\* holding it has no valid address, and otherwise the first valid address of
\* that interface.
C7_LinkLocalNeverReturned ==
    (f6pc = "done" /\ InLinkLocal(PublicAddr))
        => /\ f6ret # str(PublicAddr)
           /\ f6ret = IF HeldSomewhere(PublicAddr)
                      THEN FirstValidOn(FirstHolding(PublicAddr))
                      ELSE None

C7_Witness ==
    /\ f6pc = "done"
    /\ InLinkLocal(PublicAddr)
    /\ HeldSomewhere(PublicAddr)
    /\ f6ret = "2001:db8::2"

\* C8: a public address held by an interface where it is not valid makes
\* findipv6 return the first valid address of that interface in enumeration
\* order, None when the interface has none.
C8_FirstValidOfSameInterface ==
    (/\ f6pc = "done"
     /\ PublicAddr.ok
     /\ HeldSomewhere(PublicAddr)
     /\ ~Valid(DictOn(FirstHolding(PublicAddr), PublicAddr)))
        => f6ret = FirstValidOn(FirstHolding(PublicAddr))

C8_Witness ==
    /\ f6pc = "done"
    /\ f6body = "2001:DB8:0::1"
    /\ f6ifaces = <<Iface(<<AddrDict("2001:db8::1", {IN6_IFF_TEMPORARY}),
                           AddrDict("2001:db8::2", NoFlags)>>)>>
    /\ f6ret = "2001:db8::2"

\* no interface flags address ip as temporary
NotTemporary(ip) ==
    \A k \in 1..Len(f6ifaces) :
        Holds(k, ip) => IN6_IFF_TEMPORARY \notin DictOn(k, ip).flags

\* C9: a public address that is not temporary is always returned.
C9_NonTemporaryReturned ==
    (f6pc = "done" /\ PublicAddr.ok /\ NotTemporary(PublicAddr))
        => f6ret = str(PublicAddr)

SameAddress(a, b) ==
    /\ IPAddress(a).ok
    /\ IPAddress(b).ok
    /\ IPAddress(a).version = IPAddress(b).version
    /\ IPAddress(a).value = IPAddress(b).value

\* C11: getaddrupdate returns None whenever the new address is absent or
\* invalid, whatever the cached value; it returns None when the cached value
\* parses and names the same address as the new one; in every other case
\* (cached value absent, unparseable or different) it returns the canonical
\* text of the new address.
C11_UpdateDecision ==
    gaPc # "call" =>
        /\ gaPc = "returned"
        /\ gaRet = IF ~IPAddress(gaNewaddr).ok THEN None
                   ELSE IF SameAddress(gaNewaddr, gaCache) THEN None
                   ELSE str(IPAddress(gaNewaddr))

(***************************************************************************)
(* The run as a whole (checked under Spec).                                *)
(***************************************************************************)
\* an invocation of updateEngine has ended
RunEnded == pc = "exit" /\ run > 0

\* the invocation got past lines 203-244: valid options, cache file loaded
PassedLoading == ConfigError(config) = "ok" /\ ~readcache(startFile).raised

\* the invocation ended in the handler of lines 274-276
WriteFailed ==
    /\ Len(out) > 0
    /\ out[Len(out)] = Line("ERROR cache store", "")

\* C12: every run that passes configuration validation and cache loading
\* writes the cache exactly once, after the last hostname has been processed
\* and after every provider call; nothing is written between hosts, and a run
\* aborted for invalid configuration or an unparseable cache writes nothing.
C12_OneWriteAtEnd ==
    /\ pc = "loop" => writes = 0
    /\ writes > 0 => pc = "exit" /\ idx = Len(config.hostnames)
    /\ RunEnded => writes = IF PassedLoading THEN 1 ELSE 0

\* C13: the result of a run is success or failure, and it is failure exactly
\* when the configuration is invalid, the cache cannot be parsed or the final
\* cache write fails; failed provider calls and unavailable addresses leave
\* it success.
C13_FailureIffStructural ==
    RunEnded =>
        /\ result \in {"True", "False"}
        /\ result = "False" <=>
              \/ ConfigError(config) # "ok"
              \/ readcache(startFile).raised
              \/ WriteFailed

\* the hostnames the lines printed so far are about, in the order printed
Reported ==
    [i \in 1..Len(SelectSeq(out, LAMBDA l : l.host # "")) |->
        SelectSeq(out, LAMBDA l : l.host # "")[i].host]

\* C15: once the cache has been loaded, every configured hostname is
\* processed exactly once, in the configured order, and the run reaches the
\* final cache write, whatever the resolvers and the provider answered for
\* earlier hostnames and whatever the loaded cache entries contain; no
\* hostname aborts the run.
C15_EveryHostProcessed ==
    /\ pc = "loop" => Reported = SubSeq(config.hostnames, 1, idx)
    /\ (RunEnded /\ PassedLoading) =>
          /\ Reported = config.hostnames
          /\ idx = Len(config.hostnames)
          /\ writes = 1

(***************************************************************************)
(* findipv6: which interfaces are looked at (checked under Spec6).         *)
(***************************************************************************)
\* C14: when the service gives no public IPv6 address, findipv6 returns None
\* and the interfaces are never enumerated: netifaces.interfaces() is not
\* called and no interface's addresses are read, at any point of the call.
C14_AbsentPublicNoEnumeration ==
    ~PublicAddr.ok =>
        /\ ~f6enumerated
        /\ f6examined = <<>>
        /\ f6pc = "done" => f6ret = None

C14_Witness ==
    /\ ~PublicAddr.ok
    /\ f6pc = "done"
    /\ Len(f6ifaces) > 0
    /\ f6ifaces[1].inet6

(***************************************************************************)
(* Retry across runs (checked under Spec).                                 *)
(***************************************************************************)
\* call number i of cs failed
FailedCall(cs, i) == i \in 1..Len(cs) /\ ~cs[i].ok

\* call number i of cs failed and no later call of cs for the same hostname
\* succeeded
FailedForGood(cs, i) ==
    /\ FailedCall(cs, i)
    /\ \A j \in (i + 1)..Len(cs) : cs[j].host = cs[i].host => ~cs[j].ok

\* this invocation made a call for the same hostname with the same addresses
\* as call number i of the invocation before
Retried(i) ==
    \E j \in 1..Len(calls) :
        /\ calls[j].host = prev.calls[i].host
        /\ calls[j].ipv4 = prev.calls[i].ipv4
        /\ calls[j].ipv6 = prev.calls[i].ipv6

\* C16 as stated: a provider call that failed in one run is issued again, for
\* the same hostname and with the same addresses, by the next run when the
\* resolved addresses are the same; within one run no call follows a failed
\* call for the same hostname.
C16_RetryNextRun ==
    /\ (RunEnded /\ SameAddresses) =>
          \A i \in 1..Len(prev.calls) :
              FailedCall(prev.calls, i) => Retried(i)
    /\ \A i, j \in 1..Len(calls) :
          (i < j /\ ~calls[i].ok) => calls[j].host # calls[i].host

\* C16, amended: when the last call of a run for a hostname failed, the
\* resolved addresses are the same in the next run and the next run loads
\* the cache, the next run issues a call for that hostname with the same
\* addresses; within one run every pass of the loop makes at most one call.
C16_RetryAfterLastFailure ==
    /\ (RunEnded /\ SameAddresses /\ PassedLoading) =>
          \A i \in 1..Len(prev.calls) :
              FailedForGood(prev.calls, i) => Retried(i)
    /\ \A i, j \in 1..Len(calls) : i < j => calls[i].pos < calls[j].pos

C16_Witness ==
    /\ RunEnded
    /\ SameAddresses
    /\ PassedLoading
    /\ \E i \in 1..Len(prev.calls) :
          /\ FailedForGood(prev.calls, i)
          /\ prev.calls[i].ipv4 # None
          /\ prev.calls[i].ipv6 # None
          /\ Retried(i)
    /\ \E i \in 1..Len(calls) : ~calls[i].ok

(***************************************************************************)
(* What a run leaves alone (checked under Spec).                           *)
(***************************************************************************)
\* the hostnames of the configuration
Configured == {config.hostnames[i] : i \in 1..Len(config.hostnames)}

\* this step appends a successful provider call
SucceedsNow == Len(calls') = Len(calls) + 1 /\ calls'[Len(calls')].ok

\* C17: a successful call for a hostname that carries one family leaves the
\* cached field of the other family of that hostname as it was; within a run
\* the entry of a key changes only while that key is the hostname being
\* processed, and is never removed; entries of keys that are not configured
\* hostnames stay as loaded and are written back as loaded.
C17_Frame ==
    /\ [][SucceedsNow =>
            LET c == calls'[Len(calls')]
            IN  /\ c.ipv4 = None =>
                      GetRec(cachemap', c.host).ipv4
                          = GetRec(cachemap, c.host).ipv4
                /\ c.ipv6 = None =>
                      GetRec(cachemap', c.host).ipv6
                          = GetRec(cachemap, c.host).ipv6]_vars
    /\ [][run' = run =>
            /\ cachemap'.kind = cachemap.kind
            /\ \A k \in Keys :
                  /\ cachemap'.map[k] # cachemap.map[k] =>
                        InLoop /\ k = hostname
                  /\ cachemap.map[k].kind # "absent" =>
                        cachemap'.map[k].kind # "absent"]_vars
    /\ [](\A k \in Keys \ Configured :
            /\ pc = "loop" => cachemap.map[k] = loaded.map[k]
            /\ (RunEnded /\ result = "True") =>
                  /\ cachefile.state = "json"
                  /\ cachefile.json.map[k] = loaded.map[k])

C17_Witness ==
    /\ RunEnded
    /\ result = "True"
    /\ \E i \in 1..Len(calls) :
          /\ calls[i].ok
          /\ calls[i].ipv4 = None
          /\ calls[i].ipv6 # None
          /\ cachefile.json.map[calls[i].host].ipv4 = "1.2.3.4"
          /\ cachefile.json.map[calls[i].host].ipv6 = calls[i].ipv6
    /\ "old" \notin Configured
    /\ cachefile.json.map["old"] = Object("5.6.7.8", None)
    /\ loaded.map["old"] = Object("5.6.7.8", None)

\* C18: findipv6 decides on the first interface, in enumeration order, that
\* holds the public address: the interfaces before it are passed over, no
\* interface after it is ever read, and the result (an address or None) is
\* the one that interface alone gives, also when a later interface holds the
\* public address too and has a valid address.
C18_FirstHoldingDecides ==
    (PublicAddr.ok /\ HeldSomewhere(PublicAddr)) =>
        LET k == FirstHolding(PublicAddr)
        IN  /\ Len(f6examined) <= k
            /\ \A i \in 1..Len(f6examined) : f6examined[i] = i
            /\ f6pc = "done" =>
                  /\ Len(f6examined) = k
                  /\ f6ret = IF Valid(DictOn(k, PublicAddr))
                             THEN str(PublicAddr)
                             ELSE FirstValidOn(k)

C18_Witness ==
    /\ f6pc = "done"
    /\ PublicAddr.ok
    /\ Len(f6ifaces) = 2
    /\ Holds(1, PublicAddr)
    /\ Holds(2, PublicAddr)
    /\ FirstValidOn(1) = None
    /\ FirstValidOn(2) # None
    /\ f6examined = <<1>>
    /\ f6ret = None

(***************************************************************************)
(* Convergence (checked under Spec).                                       *)
(***************************************************************************)
\* the cached text names the resolved address, for a family that is enabled
\* and whose address is available
Agrees(enabled, resolved, cached) ==
    (getboolean(enabled) /\ resolved # None) => SameAddress(resolved, cached)

\* C19: right after a successful provider call for a hostname, the cached
\* field of every family the call carried equals the address sent, so that
\* getaddrupdate with the same address and the updated entry gives None; and
\* at the end of a run in which every provider call succeeded, for every
\* hostname the run resolved addresses for and every enabled family whose
\* address is available, the cached field names the resolved address.
C19_Convergence ==
    /\ [][SucceedsNow =>
            LET c == calls'[Len(calls')]
                crec == GetRec(cachemap', c.host)
            IN  /\ c.ipv4 # None =>
                      /\ crec.ipv4 = c.ipv4
                      /\ getaddrupdate(c.ipv4, crec.ipv4) = None
                /\ c.ipv6 # None =>
                      /\ crec.ipv6 = c.ipv6
                      /\ getaddrupdate(c.ipv6, crec.ipv6) = None]_vars
    /\ []((/\ RunEnded
           /\ PassedLoading
           /\ AllOk(calls)
           /\ netChanges = startChanges) =>
             \A i \in 1..Len(config.hostnames) :
                 i <= idx + 1 =>
                     /\ Agrees(config.ipv4, Resolved4,
                               cachemap.map[config.hostnames[i]].ipv4)
                     /\ Agrees(config.ipv6, Resolved6,
                               cachemap.map[config.hostnames[i]].ipv6))

=============================================================================
